---------------------------- MODULE Spec2Model ----------------------------
(***************************************************************************)
(* quarter-compare: the concurrent resolution pipeline of main() and the   *)
(* payload reconciliation of ParseCompanyFundamentals / chooseBestDump.    *)
(*                                                                         *)
(* Strings whose characters matter (period labels, quarter values) are     *)
(* sequences of one-character strings; JSON values decoded by              *)
(* encoding/json are tagged records (t = "null", "num", "str", "arr",      *)
(* "obj"); a Go map[string]interface{} is [nil, m] so that the nil map is  *)
(* a value of its own.                                                     *)
(***************************************************************************)
EXTENDS Integers, Sequences, FiniteSets, TLC

VARIABLES
    \* ---- main(): the orchestrator (src/main.go) ----
    todaysItems,    \* the entities of the batch, a sequence of BSEItem
    maxConcurrent,  \* capacity of sem
    mainPc,         \* position of main: "dispatch", "gather", "report", "done"
    next,           \* index of the next item of the dispatch loop
    sem,            \* number of tokens held in the semaphore channel
    wg,             \* the WaitGroup counter
    resultsCh,      \* buffered channel of result{cr, err}
    closed,         \* resultsCh has been closed
    closes,         \* how many times close(resultsCh) ran
    closerPc,       \* the closer goroutine: "none", "wait", "close", "done"
    pc,             \* per item, the position of its goroutine
    pending,        \* per item, the result its goroutine is about to send
    io,             \* per item, what the network returned to it so far
    sends,          \* per item, how many results it has sent
    results,        \* main's results slice
    reported,       \* the slice handed to GenerateHTMLReport
    panicked,       \* a send on the closed channel happened
    \* ---- chooseBestDump called directly ----
    dQd,            \* the quarterlyDataDump mapping given
    dOrder,         \* the qOrder given
    dRes,           \* the set of maps returned by the calls so far
    dCalls,         \* number of calls made
    \* ---- one function of the program called directly ----
    cFn,            \* the function called, "" when none is
    cIn,            \* its arguments
    cOut            \* <<>> before the call returns, <<value returned>> after

vars == <<todaysItems, maxConcurrent, mainPc, next, sem, wg, resultsCh, closed,
          closes, closerPc, pc, pending, io, sends, results, reported,
          panicked, dQd, dOrder, dRes, dCalls, cFn, cIn, cOut>>

orchVars == <<todaysItems, maxConcurrent, mainPc, next, sem, wg, resultsCh,
              closed, closes, closerPc, pc, pending, io, sends, results,
              reported, panicked>>

callVars == <<cFn, cIn, cOut>>

\* what main() leaves alone: the variables of the direct calls
dumpVars == <<dQd, dOrder, dRes, dCalls, cFn, cIn, cOut>>

---------------------------------------------------------------------------
(* Bounds of the model *)

MaxEntities == 2
MaxOrderLen == 2
MaxCalls == 2

---------------------------------------------------------------------------
(* Characters and strings *)

UpperChars == <<"A","B","C","D","E","F","G","H","I","J","K","L","M",
                "N","O","P","Q","R","S","T","U","V","W","X","Y","Z">>
LowerChars == <<"a","b","c","d","e","f","g","h","i","j","k","l","m",
                "n","o","p","q","r","s","t","u","v","w","x","y","z">>
DigitChars == <<"0","1","2","3","4","5","6","7","8","9">>

Range(s) == {s[i] : i \in DOMAIN s}

\* strings.ToLower, one character
ToLowerChar(c) ==
    IF \E i \in DOMAIN UpperChars : UpperChars[i] = c
    THEN LowerChars[CHOOSE i \in DOMAIN UpperChars : UpperChars[i] = c]
    ELSE c

\* the complement of the class [^a-z0-9]
IsAlnum(c) == c \in Range(LowerChars) \cup Range(DigitChars)

\* normalize: lower-case, then delete every character matching [^a-z0-9]
normalize(s) == SelectSeq([i \in DOMAIN s |-> ToLowerChar(s[i])], IsAlnum)

\* strings.Contains(s, sub)
Contains(s, sub) ==
    \E i \in 0..(Len(s) - Len(sub)) : SubSeq(s, i + 1, i + Len(sub)) = sub

Perms(S) == {f \in [1..Cardinality(S) -> S] : \A e \in S : \E i \in DOMAIN f : f[i] = e}

---------------------------------------------------------------------------
(* Decoded JSON values and Go maps *)

JNull == [t |-> "null"]
JNum(n) == [t |-> "num", v |-> n]
JStr(s) == [t |-> "str", v |-> s]
JArr(a) == [t |-> "arr", v |-> a]
JObj(f) == [t |-> "obj", v |-> f]

EmptyFn == [k \in {} |-> JNull]
NilMap == [nil |-> TRUE, m |-> EmptyFn]
GoMap(f) == [nil |-> FALSE, m |-> f]

\* v.(map[string]interface{}): the map, and whether the assertion held
IsMap(v) == v.t = "obj"
AsMap(v) == IF IsMap(v) THEN GoMap(v.v) ELSE NilMap

\* m[k] with the comma-ok form: reading a nil map yields the zero value
HasKey(gm, k) == ~gm.nil /\ k \in DOMAIN gm.m
MapGet(gm, k) == IF HasKey(gm, k) THEN gm.m[k] ELSE JNull
Keys(gm) == IF gm.nil THEN {} ELSE DOMAIN gm.m

---------------------------------------------------------------------------
(* Numbers and their text.  A finite float64 is an integer count of        *)
(* thousandths; NaN is a value of its own.  The sample numbers have no     *)
(* digit 5 in the thousandths, so rounding to two decimals has no ties.    *)

NaN == [k |-> "nan", v |-> 0]
Fin(n) == [k |-> "fin", v |-> n]
IsNaN(f) == f.k = "nan"

Abs(n) == IF n < 0 THEN -n ELSE n

DigitOf(c) == (CHOOSE i \in DOMAIN DigitChars : DigitChars[i] = c) - 1
IsDigit(c) == c \in Range(DigitChars)

RECURSIVE Digits(_)
Digits(n) == IF n < 10 THEN <<DigitChars[n + 1]>>
             ELSE Digits(n \div 10) \o <<DigitChars[(n % 10) + 1]>>

RECURSIVE DigitsValue(_)
DigitsValue(s) == IF s = <<>> THEN 0
                  ELSE 10 * DigitsValue(SubSeq(s, 1, Len(s) - 1)) + DigitOf(s[Len(s)])

\* strings.TrimRight(s, cutset) for a one-character cutset
RECURSIVE TrimRight(_, _)
TrimRight(s, c) == IF s # <<>> /\ s[Len(s)] = c
                   THEN TrimRight(SubSeq(s, 1, Len(s) - 1), c)
                   ELSE s

\* strconv.FormatFloat(f, 'f', 2, 64): sign, integer part, point, two digits
FormatFloat2(f) ==
    IF IsNaN(f) THEN <<"N", "a", "N">>
    ELSE LET h == (Abs(f.v) + 5) \div 10
         IN (IF f.v < 0 THEN <<"-">> ELSE <<>>) \o Digits(h \div 100) \o <<".">>
              \o <<DigitChars[((h \div 10) % 10) + 1], DigitChars[(h % 10) + 1]>>

\* formatFloat (src/types.go:513-520)
formatFloat(f) == TrimRight(TrimRight(FormatFloat2(f), "0"), ".")

WhiteChars == {" ", "\t", "\n"}

RECURSIVE TrimLeftSpace(_)
TrimLeftSpace(s) == IF s # <<>> /\ s[1] \in WhiteChars THEN TrimLeftSpace(Tail(s)) ELSE s

RECURSIVE TrimRightSpace(_)
TrimRightSpace(s) == IF s # <<>> /\ s[Len(s)] \in WhiteChars
                     THEN TrimRightSpace(SubSeq(s, 1, Len(s) - 1))
                     ELSE s

\* strings.TrimSpace
TrimSpace(s) == TrimRightSpace(TrimLeftSpace(s))

ToLower(s) == [i \in DOMAIN s |-> ToLowerChar(s[i])]

\* strings.EqualFold on the characters of the samples
EqualFold(a, b) == ToLower(a) = ToLower(b)

\* strings.ReplaceAll(s, ",", "")
NotComma(c) == c # ","
RemoveCommas(s) == SelectSeq(s, NotComma)

\* strconv.ParseFloat(s, 64) on decimal text: an optional sign, digits with
\* an optional point, at least one digit; also "nan" in any case.  Digits
\* after the third decimal are dropped.  [ok, f]
ParseFloat(s) ==
    LET signed == s # <<>> /\ s[1] \in {"+", "-"}
        u == IF signed THEN Tail(s) ELSE s
        dots == {i \in DOMAIN u : u[i] = "."}
        p == IF dots = {} THEN Len(u) + 1 ELSE CHOOSE i \in dots : TRUE
        ip == SubSeq(u, 1, p - 1)
        fp == SubSeq(u, p + 1, Len(u))
        fp3 == SubSeq(fp \o <<"0", "0", "0">>, 1, 3)
        wellFormed == /\ Cardinality(dots) <= 1
                      /\ \A i \in DOMAIN ip : IsDigit(ip[i])
                      /\ \A i \in DOMAIN fp : IsDigit(fp[i])
                      /\ Len(ip) + Len(fp) > 0
        mag == 1000 * DigitsValue(ip) + DigitsValue(fp3)
    IN IF ToLower(s) = <<"n", "a", "n">> THEN [ok |-> TRUE, f |-> NaN]
       ELSE IF wellFormed
            THEN [ok |-> TRUE, f |-> Fin(IF signed /\ s[1] = "-" THEN -mag ELSE mag)]
            ELSE [ok |-> FALSE, f |-> Fin(0)]

NotDeclared == <<"n", "o", "t", " ", "d", "e", "c", "l", "a", "r", "e", "d">>

\* quarterValueToFloat64 (src/types.go:424-436)
quarterValueToFloat64(q) ==
    LET s == TrimSpace(q)
    IN IF s = <<>> \/ EqualFold(s, NotDeclared) THEN NaN
       ELSE LET r == ParseFloat(RemoveCommas(s))
            IN IF r.ok THEN r.f ELSE NaN

\* json.Marshal of the values valueFromMap's default case can see in the
\* samples: booleans, the empty array and the empty object
JBool(b) == [t |-> "bool", v |-> b]
Marshal(v) ==
    CASE v.t = "bool" /\ v.v -> <<"t", "r", "u", "e">>
      [] v.t = "bool" /\ ~v.v -> <<"f", "a", "l", "s", "e">>
      [] v.t = "arr" /\ v.v = <<>> -> <<"[", "]">>
      [] v.t = "obj" /\ DOMAIN v.v = {} -> <<"{", "}">>

\* valueFromMap (src/types.go:483-511), from the i-th key on.  Decoded JSON
\* never holds a Go int, so that case of the type switch is not reachable.
RECURSIVE valueFromKeys(_, _, _)
valueFromKeys(m, keys, i) ==
    IF i > Len(keys) THEN NotDeclared
    ELSE LET v == MapGet(m, keys[i])
         IN IF ~HasKey(m, keys[i]) \/ v = JNull
            THEN valueFromKeys(m, keys, i + 1)
            ELSE CASE v.t = "num" -> formatFloat(Fin(v.v))
                   [] v.t = "str" ->
                        IF ParseFloat(v.v).ok THEN formatFloat(ParseFloat(v.v).f)
                        ELSE IF v.v = <<>> THEN valueFromKeys(m, keys, i + 1)
                        ELSE v.v
                   [] OTHER -> Marshal(v)

\* a variant that gives up after the first key
valueFromMapFirstKey(m, keys) == valueFromKeys(m, SubSeq(keys, 1, 1), 1)

\* a variant that tries the keys from the last to the first
valueFromMapLastFirst(m, keys) ==
    valueFromKeys(m, [i \in 1..Len(keys) |-> keys[Len(keys) + 1 - i]], 1)

valueFromMap(m, keys) == valueFromKeys(m, keys, 1)

---------------------------------------------------------------------------
(* chooseBestDump (src/types.go:439-481) *)

\* targets: the normalized qOrder
Targets(qOrder) == [i \in DOMAIN qOrder |-> normalize(qOrder[i])]

\* the comparison of one key of a candidate with one target
KeyMatches(nmk, t) == t = nmk \/ Contains(nmk, t) \/ Contains(t, nmk)

\* score of one candidate map: the keys of m that match some target (the
\* inner loop breaks at the first target matched, so a key counts once)
Score(m, targets) ==
    Cardinality({mk \in DOMAIN m :
                   \E i \in DOMAIN targets : KeyMatches(normalize(mk), targets[i])})

\* the loop "for k, v := range qd", visiting the keys in the order given
RECURSIVE chooseLoop(_, _, _, _, _)
chooseLoop(qd, targets, order, i, best) ==
    IF i > Len(order) THEN best
    ELSE LET k == order[i]
             v == qd[k]
         IN IF ~IsMap(v)
            THEN chooseLoop(qd, targets, order, i + 1, best)
            ELSE LET score == Score(v.v, targets)
                 IN IF score > best.bestScore
                    THEN chooseLoop(qd, targets, order, i + 1,
                           [bestKey |-> k, bestScore |-> score, bestMap |-> GoMap(v.v)])
                    ELSE chooseLoop(qd, targets, order, i + 1, best)

\* a variant that starts from bestScore = 0
chooseBestDumpZeroInit(qd, qOrder, order) ==
    chooseLoop(qd, Targets(qOrder), order, 1,
               [bestKey |-> "", bestScore |-> 0, bestMap |-> NilMap]).bestMap

\* a variant that keeps the candidate seen last, whatever its score
chooseBestDumpLastSeen(qd, qOrder, order) ==
    LET maps == {i \in DOMAIN order : IsMap(qd[order[i]])}
    IN IF maps = {} THEN NilMap
       ELSE GoMap(qd[order[CHOOSE i \in maps : \A j \in maps : j <= i]].v)

\* qd is the function of the mapping's entries, order the iteration order of
\* "range qd" (Go leaves it unspecified)
chooseBestDump(qd, qOrder, order) ==
    chooseLoop(qd, Targets(qOrder), order, 1,
               [bestKey |-> "", bestScore |-> -1, bestMap |-> NilMap]).bestMap

---------------------------------------------------------------------------
(* ParseCompanyFundamentals (src/types.go:282-422) *)

\* the number of quarters kept: "max := 4"
MaxQuarters == 4

\* The bytes FetchFundamentalsJSON hands on: no bytes, white space only,
\* text that is not JSON, or the text of a JSON value.
BytesEmpty == [kind |-> "empty"]
BytesBlank == [kind |-> "blank"]
BytesText == [kind |-> "text"]
BytesJSON(doc) == [kind |-> "json", doc |-> doc]

\* json.Unmarshal(fundJSON, &root) with root a map[string]interface{}: an
\* object fills the map, null leaves it nil, anything else is an error
Unmarshal(b) ==
    IF b.kind = "json" /\ b.doc.t = "obj" THEN [err |-> FALSE, root |-> GoMap(b.doc.v)]
    ELSE IF b.kind = "json" /\ b.doc.t = "null" THEN [err |-> FALSE, root |-> NilMap]
    ELSE [err |-> TRUE, root |-> NilMap]

\* body, _ := root["body"].(map[string]interface{})
BodyOf(root) == AsMap(MapGet(root, "body"))

\* the string elements of body["quarterlyOrder"], in order
IsStr(v) == v.t = "str"
StrOf(v) == v.v
qOrderOf(body) ==
    LET qo == MapGet(body, "quarterlyOrder")
    IN IF ~body.nil /\ qo.t = "arr"
       THEN LET strs == SelectSeq(qo.v, IsStr)
            IN [i \in DOMAIN strs |-> StrOf(strs[i])]
       ELSE <<>>

\* body["quarterlyDataDump"] when it is a map, else no entries
QdOf(body) ==
    LET qd == MapGet(body, "quarterlyDataDump")
    IN IF ~body.nil /\ HasKey(body, "quarterlyDataDump") /\ IsMap(qd) THEN qd.v ELSE EmptyFn

HasQd(body) == ~body.nil /\ HasKey(body, "quarterlyDataDump")
                 /\ IsMap(MapGet(body, "quarterlyDataDump"))

\* dump: the candidate chosen, nil when there is nothing to choose from
DumpOfBody(body, gord) ==
    IF HasQd(body) THEN chooseBestDump(QdOf(body), qOrderOf(body), gord) ELSE NilMap

\* a variant with the containment loop only
findQuarterKeyOnePass(d, q, korder) ==
    LET nq == normalize(q)
        fuzzy == {i \in DOMAIN korder :
                    LET nk == normalize(korder[i])
                    IN Contains(nk, nq) \/ Contains(nq, nk)}
    IN IF fuzzy # {} THEN korder[CHOOSE i \in fuzzy : \A j \in fuzzy : i <= j]
       ELSE <<>>

\* findQuarterKey (src/types.go:334-356); korder is the order in which
\* "range d" visits the keys, "" is <<>>
findQuarterKey(d, q, korder) ==
    LET nq == normalize(q)
        exact == {i \in DOMAIN korder : nq = normalize(korder[i])}
        fuzzy == {i \in DOMAIN korder :
                    LET nk == normalize(korder[i])
                    IN Contains(nk, nq) \/ Contains(nq, nk)}
        First(S) == korder[CHOOSE i \in S : \A j \in S : i <= j]
    IN IF exact # {} THEN First(exact)
       ELSE IF fuzzy # {} THEN First(fuzzy)
       ELSE <<>>

RevenueKeys == <<"TOTAL_SR_Q", "SR_Q">>
NetProfitKeys == <<"NP_Q">>

\* one pass of the loop over the first max quarters: [rev, np]
QuarterEntry(dump, q, korder) ==
    LET undeclared == [rev |-> NotDeclared, np |-> NotDeclared]
        read(qmap) == [rev |-> valueFromMap(qmap, RevenueKeys),
                       np |-> valueFromMap(qmap, NetProfitKeys)]
    IN IF dump.nil THEN undeclared
       ELSE IF IsMap(MapGet(dump, q)) THEN read(AsMap(MapGet(dump, q)))
       ELSE LET alt == findQuarterKey(dump, q, korder)
            IN IF alt # <<>> /\ IsMap(MapGet(dump, alt))
               THEN read(AsMap(MapGet(dump, alt)))
               ELSE undeclared

Min(a, b) == IF a < b THEN a ELSE b

\* pad up to 4 entries
PadTo(s, n, x) == s \o [i \in 1..(n - Len(s)) |-> x]

\* a variant that records the label of a quarter only when values were read
\* for it
ParseCompanyFundamentalsLabelsFound(shortName, fundJSON, gord, kords) ==
    LET u == Unmarshal(fundJSON)
        body == BodyOf(u.root)
        qOrder == qOrderOf(body)
        dump == DumpOfBody(body, gord)
        max == Min(MaxQuarters, Len(qOrder))
        entry(i) == QuarterEntry(dump, qOrder[i], kords[i])
        found == SelectSeq([i \in 1..max |->
                              IF entry(i).rev = NotDeclared /\ entry(i).np = NotDeclared
                              THEN <<>> ELSE qOrder[i]],
                           LAMBDA q : q # <<>>)
        revenue == PadTo([i \in 1..max |-> entry(i).rev], MaxQuarters, NotDeclared)
        netProfit == PadTo([i \in 1..max |-> entry(i).np], MaxQuarters, NotDeclared)
    IN [Company |-> shortName, LongName |-> <<>>,
        Quarters |-> PadTo(found, MaxQuarters, <<>>),
        Revenue |-> revenue,
        NetProfit |-> netProfit,
        RevenueNums |-> [i \in DOMAIN revenue |-> quarterValueToFloat64(revenue[i])],
        NetProfitNums |-> [i \in DOMAIN netProfit |-> quarterValueToFloat64(netProfit[i])]]

\* a variant that fills the numeric arrays before the lists are padded
ParseCompanyFundamentalsNumsUnpadded(shortName, fundJSON, gord, kords) ==
    LET u == Unmarshal(fundJSON)
        body == BodyOf(u.root)
        qOrder == qOrderOf(body)
        dump == DumpOfBody(body, gord)
        max == Min(MaxQuarters, Len(qOrder))
        entry(i) == QuarterEntry(dump, qOrder[i], kords[i])
    IN IF u.err
       THEN [Company |-> shortName, LongName |-> <<>>, Quarters |-> <<>>,
             Revenue |-> <<>>, NetProfit |-> <<>>,
             RevenueNums |-> <<>>, NetProfitNums |-> <<>>]
       ELSE [Company |-> shortName, LongName |-> <<>>,
             Quarters |-> PadTo([i \in 1..max |-> qOrder[i]], MaxQuarters, <<>>),
             Revenue |-> PadTo([i \in 1..max |-> entry(i).rev], MaxQuarters, NotDeclared),
             NetProfit |-> PadTo([i \in 1..max |-> entry(i).np], MaxQuarters, NotDeclared),
             RevenueNums |-> [i \in 1..max |-> quarterValueToFloat64(entry(i).rev)],
             NetProfitNums |-> [i \in 1..max |-> quarterValueToFloat64(entry(i).np)]]

\* gord: the order "range qd" takes in chooseBestDump; kords[i]: the order
\* "range d" takes in the findQuarterKey call of the i-th quarter
ParseCompanyFundamentals(shortName, fundJSON, gord, kords) ==
    LET u == Unmarshal(fundJSON)
        body == BodyOf(u.root)
        qOrder == qOrderOf(body)
        dump == DumpOfBody(body, gord)
        max == Min(MaxQuarters, Len(qOrder))
        entry(i) == QuarterEntry(dump, qOrder[i], kords[i])
        revenue == PadTo([i \in 1..max |-> entry(i).rev], MaxQuarters, NotDeclared)
        netProfit == PadTo([i \in 1..max |-> entry(i).np], MaxQuarters, NotDeclared)
    IN IF u.err
       THEN \* "return cr" with only Company set
            [Company |-> shortName, LongName |-> <<>>, Quarters |-> <<>>,
             Revenue |-> <<>>, NetProfit |-> <<>>,
             RevenueNums |-> <<>>, NetProfitNums |-> <<>>]
       ELSE [Company |-> shortName, LongName |-> <<>>,
             Quarters |-> PadTo([i \in 1..max |-> qOrder[i]], MaxQuarters, <<>>),
             Revenue |-> revenue,
             NetProfit |-> netProfit,
             RevenueNums |-> [i \in DOMAIN revenue |-> quarterValueToFloat64(revenue[i])],
             NetProfitNums |-> [i \in DOMAIN netProfit |-> quarterValueToFloat64(netProfit[i])]]

\* the iteration orders the runtime may take for a payload
GOrders(fundJSON) == Perms(DOMAIN QdOf(BodyOf(Unmarshal(fundJSON).root)))
KOrders(fundJSON, gord) ==
    [1..MaxQuarters -> Perms(Keys(DumpOfBody(BodyOf(Unmarshal(fundJSON).root), gord)))]

\* every CompanyResult a call may return for a payload
ParseOutcomes(shortName, fundJSON) ==
    UNION {{ParseCompanyFundamentals(shortName, fundJSON, g, k) : k \in KOrders(fundJSON, g)} :
             g \in GOrders(fundJSON)}

---------------------------------------------------------------------------
(* Sample documents for direct calls of chooseBestDump *)

GroupNames == {"consolidated", "standalone"}
SampleKeys == {<<"Q", "1">>, <<"q", "1">>, <<"Q", "2">>, <<"x">>}
OrderLabels == {<<"Q", "1">>, <<"Q", " ", "2">>, <<"-">>}

EmptyObj == JObj(EmptyFn)

\* the values a group name may carry: a map keyed by period labels, or a
\* value that is not a map
GroupValues == {JObj([k \in K |-> EmptyObj]) : K \in SUBSET SampleKeys} \cup {JNull}

SampleQds == UNION {[D -> GroupValues] : D \in SUBSET GroupNames}
SampleOrders == UNION {[1..n -> OrderLabels] : n \in 0..MaxOrderLen}

MapGroups(qd) == {k \in DOMAIN qd : IsMap(qd[k])}
GroupScore(qd, qOrder, k) == Score(qd[k].v, Targets(qOrder))

\* no function is called directly
CallIdle ==
    /\ cFn = ""
    /\ cIn = <<>>
    /\ cOut = <<>>

DumpIdle ==
    /\ dQd = EmptyFn
    /\ dOrder = <<>>
    /\ dRes = {}
    /\ dCalls = 0
    /\ CallIdle

---------------------------------------------------------------------------
(* The network, as main's goroutines see it *)

Q(n) == <<"Q", DigitChars[n + 1]>>

\* a payload that declares five periods and carries two of them under
\* "consolidated"; "standalone" is not a map
QuarterOne == JObj([k \in {"TOTAL_SR_Q", "NP_Q"} |->
                      IF k = "NP_Q" THEN JStr(<<"1", "2", ".", "5">>) ELSE JNum(1500504)])
QuarterTwo == JObj([k \in {"SR_Q", "NP_Q"} |->
                      IF k = "NP_Q" THEN JNull ELSE JNum(900000)])
Consolidated == JObj([k \in {Q(1), <<"q", " ", "2">>} |->
                        IF k = Q(1) THEN QuarterOne ELSE QuarterTwo])
DocFive ==
    JObj([k \in {"body"} |->
        JObj([j \in {"quarterlyOrder", "quarterlyDataDump"} |->
            IF j = "quarterlyOrder"
            THEN JArr(<<JStr(Q(1)), JStr(Q(2)), JStr(Q(3)), JStr(Q(4)), JStr(Q(5))>>)
            ELSE JObj([g \in GroupNames |->
                     IF g = "consolidated" THEN Consolidated ELSE JNull])])])

\* a JSON object without "body"
DocNoBody == JObj(EmptyFn)

\* what client.Do and the reading of the response give each fetch
SearchResponses ==
    {[kind |-> "neterr", n |-> 0], [kind |-> "list", n |-> 0], [kind |-> "list", n |-> 1]}
PageResponses ==
    {[kind |-> "neterr"], [kind |-> "page", url |-> FALSE], [kind |-> "page", url |-> TRUE]}
SampleBodies == {BytesEmpty, BytesText, BytesJSON(DocNoBody), BytesJSON(DocFive)}
FundResponses ==
    {[kind |-> "neterr", body |-> BytesEmpty]}
      \cup {[kind |-> "body", body |-> b] : b \in SampleBodies}

\* FetchTrendSearch (src/types.go:182-202): [items, err]; items is the
\* number of TrendItems decoded.  A body that is not a JSON list ("text")
\* fails to decode; resp.StatusCode is not read.
FetchTrendSearch(r) ==
    IF r.kind = "neterr" THEN [items |-> 0, err |-> "transport"]
    ELSE IF r.kind = "text" THEN [items |-> 0, err |-> "decode"]
    ELSE [items |-> r.n, err |-> "nil"]

\* ExtractFundamentalsURLFromPage (src/types.go:204-244): [found, err]
ExtractFundamentalsURLFromPage(r) ==
    IF r.kind = "neterr" THEN [found |-> FALSE, err |-> "transport"]
    ELSE IF r.url THEN [found |-> TRUE, err |-> "nil"]
    ELSE [found |-> FALSE, err |-> "data-tablesurl not found"]

\* bytes.TrimSpace on the payload bytes
TrimBytes(b) == IF b.kind = "blank" THEN BytesEmpty ELSE b

\* FetchFundamentalsJSON (src/types.go:246-280): [bytes, err]; bytes that do
\* not start with a JSON token are logged and returned all the same
FetchFundamentalsJSON(r) ==
    IF r.kind = "neterr" THEN [bytes |-> BytesEmpty, err |-> "transport"]
    ELSE LET clean == TrimBytes(r.body)
         IN IF clean.kind = "empty"
            THEN [bytes |-> BytesEmpty, err |-> "empty fundamentals response"]
            ELSE [bytes |-> clean, err |-> "nil"]

---------------------------------------------------------------------------
(* main() (src/main.go:38-123) *)

ZeroCR == [Company |-> <<>>, LongName |-> <<>>, Quarters |-> <<>>,
           Revenue |-> <<>>, NetProfit |-> <<>>,
           RevenueNums |-> <<>>, NetProfitNums |-> <<>>]
ZeroResult == [cr |-> ZeroCR, err |-> "nil"]

BSEItem(i) == [ShortName |-> <<"S", i>>, LongName |-> <<"L", i>>]
Items == DOMAIN todaysItems

\* the capacities tried for sem: 1, N and 2N (the source fixes 20, which
\* like 2N is never reached by a batch of N <= MaxEntities items)
Limits(n) == {1, n, 2 * n}

\* cap(resultsCh) = len(todaysItems)
ChCap == Len(todaysItems)

\* ParseCompanyFundamentals(itm.ShortName, fundJSON) for each item and sample
\* payload, under every iteration order: evaluated once
Parsed == [i \in 1..MaxEntities |->
             [b \in SampleBodies |-> ParseOutcomes(BSEItem(i).ShortName, b)]]

Init ==
    /\ \E n \in 1..MaxEntities :
         /\ todaysItems = [i \in 1..n |-> BSEItem(i)]
         /\ maxConcurrent \in Limits(n)
         /\ pc = [i \in 1..n |-> "idle"]
         /\ pending = [i \in 1..n |-> ZeroResult]
         /\ io = [i \in 1..n |-> <<>>]
         /\ sends = [i \in 1..n |-> 0]
    /\ mainPc = "dispatch"
    /\ next = 1
    /\ sem = 0
    /\ wg = 0
    /\ resultsCh = <<>>
    /\ closed = FALSE
    /\ closes = 0
    /\ closerPc = "none"
    /\ results = <<>>
    /\ reported = <<>>
    /\ panicked = FALSE
    /\ DumpIdle

\* one round of "for _, itm := range todaysItems" without the semaphore
DispatchUnbounded ==
    /\ mainPc = "dispatch"
    /\ next <= Len(todaysItems)
    /\ sem' = sem + 1
    /\ wg' = wg + 1
    /\ pc' = [pc EXCEPT ![next] = "search"]
    /\ next' = next + 1
    /\ UNCHANGED <<todaysItems, maxConcurrent, mainPc, resultsCh, closed, closes,
                   closerPc, pending, io, sends, results, reported, panicked>>
    /\ UNCHANGED dumpVars

\* a variant of the dispatch loop that starts a task only when no task
\* holds a slot
DispatchWhenAllFree ==
    /\ mainPc = "dispatch"
    /\ next <= Len(todaysItems)
    /\ sem = 0
    /\ sem' = sem + 1
    /\ wg' = wg + 1
    /\ pc' = [pc EXCEPT ![next] = "search"]
    /\ next' = next + 1
    /\ UNCHANGED <<todaysItems, maxConcurrent, mainPc, resultsCh, closed, closes,
                   closerPc, pending, io, sends, results, reported, panicked>>
    /\ UNCHANGED dumpVars

\* one round of the dispatch loop: sem <- struct{}{} (blocks while sem is
\* full), wg.Add(1), go func() {...}()
Dispatch ==
    /\ mainPc = "dispatch"
    /\ next <= Len(todaysItems)
    /\ sem < maxConcurrent
    /\ sem' = sem + 1
    /\ wg' = wg + 1
    /\ pc' = [pc EXCEPT ![next] = "search"]
    /\ next' = next + 1
    /\ UNCHANGED <<todaysItems, maxConcurrent, mainPc, resultsCh, closed, closes,
                   closerPc, pending, io, sends, results, reported, panicked>>
    /\ UNCHANGED dumpVars

\* a variant that starts the closer goroutine before the loop instead of
\* after it, so that wg.Wait may run while wg.Add calls are still to come
StartCloserEarly ==
    /\ mainPc = "dispatch"
    /\ closerPc = "none" \/ next > Len(todaysItems)
    /\ closerPc' = IF closerPc = "none" THEN "wait" ELSE closerPc
    /\ mainPc' = IF next > Len(todaysItems) THEN "gather" ELSE mainPc
    /\ UNCHANGED <<todaysItems, maxConcurrent, next, sem, wg, resultsCh, closed, closes,
                   pc, pending, io, sends, results, reported, panicked>>
    /\ UNCHANGED dumpVars

\* the loop is over: go func() { wg.Wait(); close(resultsCh) }()
StartCloser ==
    /\ mainPc = "dispatch"
    /\ next > Len(todaysItems)
    /\ closerPc' = "wait"
    /\ mainPc' = "gather"
    /\ UNCHANGED <<todaysItems, maxConcurrent, next, sem, wg, resultsCh, closed, closes,
                   pc, pending, io, sends, results, reported, panicked>>
    /\ UNCHANGED dumpVars

\* what a goroutine leaves alone
WorkerFrame == UNCHANGED <<todaysItems, maxConcurrent, mainPc, next, closerPc,
                           results, reported, closes>>

\* the goroutine of item i made the call of this stage and got r
Called(i, stage, r) == [io EXCEPT ![i] = Append(@, [stage |-> stage, resp |-> r])]

\* a failed stage: the error is logged and result{err: err} is what the
\* goroutine goes on to send
Fail(i, err) ==
    /\ pending' = [pending EXCEPT ![i] = [cr |-> ZeroCR, err |-> err]]
    /\ pc' = [pc EXCEPT ![i] = "send"]

\* a variant that calls the search again when it fails
SearchRetries(i) ==
    /\ pc[i] = "search"
    /\ \E r \in SearchResponses :
         LET got == FetchTrendSearch(r)
         IN /\ IF got.err # "nil" THEN UNCHANGED <<pc, pending>>
               ELSE IF got.items = 0 THEN Fail(i, "no trendlyne results")
               ELSE /\ pc' = [pc EXCEPT ![i] = "page"]
                    /\ UNCHANGED pending
            /\ io' = Called(i, "search", r)
    /\ UNCHANGED <<sem, wg, resultsCh, closed, sends, panicked>>
    /\ WorkerFrame
    /\ UNCHANGED dumpVars

\* a variant without the test len(trendItems) == 0
SearchIgnoresEmpty(i) ==
    /\ pc[i] = "search"
    /\ \E r \in SearchResponses :
         LET got == FetchTrendSearch(r)
         IN /\ IF got.err # "nil" THEN Fail(i, got.err)
               ELSE /\ pc' = [pc EXCEPT ![i] = "page"]
                    /\ UNCHANGED pending
            /\ io' = Called(i, "search", r)
    /\ UNCHANGED <<sem, wg, resultsCh, closed, sends, panicked>>
    /\ WorkerFrame
    /\ UNCHANGED dumpVars

\* lines 59-72: the search, and "pick first matching entry"
Search(i) ==
    /\ pc[i] = "search"
    /\ \E r \in SearchResponses :
         LET got == FetchTrendSearch(r)
         IN /\ IF got.err # "nil" THEN Fail(i, got.err)
               ELSE IF got.items = 0 THEN Fail(i, "no trendlyne results")
               ELSE /\ pc' = [pc EXCEPT ![i] = "page"]
                    /\ UNCHANGED pending
            /\ io' = Called(i, "search", r)
    /\ UNCHANGED <<sem, wg, resultsCh, closed, sends, panicked>>
    /\ WorkerFrame
    /\ UNCHANGED dumpVars

\* lines 74-84: the detail page and the fundamentals URL in it
Page(i) ==
    /\ pc[i] = "page"
    /\ \E r \in PageResponses :
         LET got == ExtractFundamentalsURLFromPage(r)
         IN /\ IF got.err # "nil" THEN Fail(i, got.err)
               ELSE /\ pc' = [pc EXCEPT ![i] = "fund"]
                    /\ UNCHANGED pending
            /\ io' = Called(i, "page", r)
    /\ UNCHANGED <<sem, wg, resultsCh, closed, sends, panicked>>
    /\ WorkerFrame
    /\ UNCHANGED dumpVars

\* lines 86-98: the payload, ParseCompanyFundamentals and the long name
Fund(i) ==
    /\ pc[i] = "fund"
    /\ \E r \in FundResponses :
         LET got == FetchFundamentalsJSON(r)
         IN /\ io' = Called(i, "fund", r)
            /\ IF got.err # "nil" THEN Fail(i, got.err)
               ELSE \E cr \in Parsed[i][got.bytes] :
                      /\ pending' = [pending EXCEPT ![i] =
                            [cr |-> [cr EXCEPT !.LongName = todaysItems[i].LongName],
                             err |-> "nil"]]
                      /\ pc' = [pc EXCEPT ![i] = "send"]
    /\ UNCHANGED <<sem, wg, resultsCh, closed, sends, panicked>>
    /\ WorkerFrame
    /\ UNCHANGED dumpVars

\* resultsCh <- result{...}: blocks while the buffer is full, panics on a
\* closed channel
Send(i) ==
    /\ pc[i] = "send"
    /\ closed \/ Len(resultsCh) < ChCap
    /\ IF closed
       THEN panicked' = TRUE /\ UNCHANGED resultsCh
       ELSE resultsCh' = Append(resultsCh, pending[i]) /\ UNCHANGED panicked
    /\ sends' = [sends EXCEPT ![i] = @ + 1]
    /\ pc' = [pc EXCEPT ![i] = "release"]
    /\ UNCHANGED <<sem, wg, closed, pending, io>>
    /\ WorkerFrame
    /\ UNCHANGED dumpVars

\* a variant of the first deferred call that keeps the slot
ReleaseKeepsSlot(i) ==
    /\ pc[i] = "release"
    /\ pc' = [pc EXCEPT ![i] = "wgdone"]
    /\ UNCHANGED <<sem, wg, resultsCh, closed, pending, io, sends, panicked>>
    /\ WorkerFrame
    /\ UNCHANGED dumpVars

\* defer func() { <-sem }(): the deferred call that runs first
Release(i) ==
    /\ pc[i] = "release"
    /\ sem > 0
    /\ sem' = sem - 1
    /\ pc' = [pc EXCEPT ![i] = "wgdone"]
    /\ UNCHANGED <<wg, resultsCh, closed, pending, io, sends, panicked>>
    /\ WorkerFrame
    /\ UNCHANGED dumpVars

\* defer wg.Done(): the goroutine ends
WgDone(i) ==
    /\ pc[i] = "wgdone"
    /\ wg' = wg - 1
    /\ pc' = [pc EXCEPT ![i] = "exit"]
    /\ UNCHANGED <<sem, resultsCh, closed, pending, io, sends, panicked>>
    /\ WorkerFrame
    /\ UNCHANGED dumpVars

\* a variant of the closer that does not wait for the counter
CloserWaitSkipped ==
    /\ closerPc = "wait"
    /\ closerPc' = "close"
    /\ UNCHANGED <<todaysItems, maxConcurrent, mainPc, next, sem, wg, resultsCh, closed,
                   closes, pc, pending, io, sends, results, reported, panicked>>
    /\ UNCHANGED dumpVars

\* wg.Wait() returns once the counter is zero
CloserWait ==
    /\ closerPc = "wait"
    /\ wg = 0
    /\ closerPc' = "close"
    /\ UNCHANGED <<todaysItems, maxConcurrent, mainPc, next, sem, wg, resultsCh, closed,
                   closes, pc, pending, io, sends, results, reported, panicked>>
    /\ UNCHANGED dumpVars

\* close(resultsCh)
CloserClose ==
    /\ closerPc = "close"
    /\ closed' = TRUE
    /\ closes' = closes + 1
    /\ closerPc' = "done"
    /\ UNCHANGED <<todaysItems, maxConcurrent, mainPc, next, sem, wg, resultsCh,
                   pc, pending, io, sends, results, reported, panicked>>
    /\ UNCHANGED dumpVars

MainFrame == UNCHANGED <<todaysItems, maxConcurrent, next, sem, wg, closed, closes,
                         closerPc, pc, pending, io, sends, panicked>>

\* a variant of the gather loop that keeps the cr of a failed entry
GatherKeepsFailed ==
    /\ mainPc = "gather"
    /\ resultsCh # <<>>
    /\ resultsCh' = Tail(resultsCh)
    /\ results' = Append(results, Head(resultsCh).cr)
    /\ UNCHANGED <<mainPc, reported>>
    /\ MainFrame
    /\ UNCHANGED dumpVars

\* a variant of the gather loop that stops at the first failed entry
GatherStopsAtFailure ==
    /\ mainPc = "gather"
    /\ resultsCh # <<>>
    /\ resultsCh' = Tail(resultsCh)
    /\ IF Head(resultsCh).err # "nil"
       THEN mainPc' = "report" /\ UNCHANGED results
       ELSE results' = Append(results, Head(resultsCh).cr) /\ UNCHANGED mainPc
    /\ UNCHANGED reported
    /\ MainFrame
    /\ UNCHANGED dumpVars

\* one round of "for r := range resultsCh": a failed entry is skipped, the
\* cr of any other is appended
Gather ==
    /\ mainPc = "gather"
    /\ resultsCh # <<>>
    /\ resultsCh' = Tail(resultsCh)
    /\ IF Head(resultsCh).err # "nil"
       THEN UNCHANGED results
       ELSE results' = Append(results, Head(resultsCh).cr)
    /\ UNCHANGED <<mainPc, reported>>
    /\ MainFrame
    /\ UNCHANGED dumpVars

\* the range loop ends when the channel is closed and drained
GatherEnd ==
    /\ mainPc = "gather"
    /\ resultsCh = <<>>
    /\ closed
    /\ mainPc' = "report"
    /\ UNCHANGED <<resultsCh, results, reported>>
    /\ MainFrame
    /\ UNCHANGED dumpVars

\* GenerateHTMLReport(outPath, results)
Report ==
    /\ mainPc = "report"
    /\ reported' = results
    /\ mainPc' = "done"
    /\ UNCHANGED <<resultsCh, results>>
    /\ MainFrame
    /\ UNCHANGED dumpVars

Next ==
    \/ Dispatch
    \/ StartCloser
    \/ \E i \in Items : Search(i)
    \/ \E i \in Items : Page(i)
    \/ \E i \in Items : Fund(i)
    \/ \E i \in Items : Send(i)
    \/ \E i \in Items : Release(i)
    \/ \E i \in Items : WgDone(i)
    \/ CloserWait
    \/ CloserClose
    \/ Gather
    \/ GatherEnd
    \/ Report

Spec == Init /\ [][Next]_vars

\* every goroutine that can take a step eventually takes one, and every
\* network call returns
FairSpec == Spec /\ WF_vars(Next)

---------------------------------------------------------------------------
(* main() with network calls that may never return: the http.Client of    *)
(* NewHTTPClient has no Timeout, so client.Do can block for ever           *)

\* the call the goroutine of item i is in does not return
Hang(i) ==
    /\ pc[i] \in {"search", "page", "fund"}
    /\ pc' = [pc EXCEPT ![i] = "hung"]
    /\ UNCHANGED <<sem, wg, resultsCh, closed, pending, io, sends, panicked>>
    /\ WorkerFrame
    /\ UNCHANGED dumpVars

NextHang ==
    \/ Next
    \/ \E i \in Items : Hang(i)

SpecHang == Init /\ [][NextHang]_vars

\* every goroutine that can take a step eventually takes one; a call may
\* return or hang
FairHang == SpecHang /\ WF_vars(Next)

---------------------------------------------------------------------------
(* Claims about the orchestrator *)

N == Len(todaysItems)

\* goroutines started that still hold their slot
Running == {i \in Items : pc[i] \in {"search", "page", "fund", "send", "release"}}

\* the resolution of item i reported an error
Failed(i) == sends[i] > 0 /\ pending[i].err # "nil"
K == Cardinality({i \in Items : Failed(i)})

\* positions of the list at which the CompanyResult of item i stands
EntriesOf(list, i) == {j \in DOMAIN list : list[j].Company = todaysItems[i].ShortName}

AllExited == \A i \in Items : pc[i] = "exit"

\* C1: the resolutions started and not yet through never outnumber
\* maxConcurrent; each holds one slot of sem, and the dispatch loop admits
\* the next one only while a slot is free.
C1_AtMostMaxConcurrent ==
    /\ Cardinality(Running) <= maxConcurrent
    /\ sem = Cardinality(Running)

\* the limit is reached with an item still to dispatch: main blocks on sem
C1_Witness ==
    /\ mainPc = "dispatch"
    /\ next <= N
    /\ maxConcurrent < N
    /\ Cardinality(Running) = maxConcurrent

Terminated ==
    /\ mainPc = "done"
    /\ next > N
    /\ AllExited
    /\ closerPc = "done"
    /\ closed
    /\ resultsCh = <<>>

\* C3: when every network call returns and every goroutine that can run
\* does run, the batch terminates: the dispatch loop finishes, every task
\* finishes, the channel is closed and the gather loop ends.
C3_BatchTerminates == <>Terminated

\* a terminated batch whose limit was below its size and which saw a failure
C3_Witness ==
    /\ Terminated
    /\ maxConcurrent < N
    /\ K >= 1

\* what the network returned to item i lets its resolution succeed
OwnSuccess(i) ==
    /\ Len(io[i]) = 3
    /\ FetchTrendSearch(io[i][1].resp).err = "nil"
    /\ FetchTrendSearch(io[i][1].resp).items > 0
    /\ ExtractFundamentalsURLFromPage(io[i][2].resp).err = "nil"
    /\ FetchFundamentalsJSON(io[i][3].resp).err = "nil"

\* the CompanyResults item i can produce from its own payload
OwnResults(i) ==
    {[cr EXCEPT !.LongName = todaysItems[i].LongName] :
        cr \in Parsed[i][FetchFundamentalsJSON(io[i][3].resp).bytes]}

\* C4: whether the CompanyResult of an item B is in the output, and what it
\* holds, is decided by what the network returned to B alone; the failure
\* of another item neither stops B's goroutine nor changes B's entry.
C4_SiblingsUnaffected ==
    mainPc = "done" =>
        \A b \in Items :
            /\ pc[b] = "exit"
            /\ IF OwnSuccess(b)
               THEN \E j \in DOMAIN reported :
                      /\ EntriesOf(reported, b) = {j}
                      /\ reported[j] \in OwnResults(b)
               ELSE EntriesOf(reported, b) = {}

\* item A failed in the search, item B is in the output
C4_Witness ==
    /\ mainPc = "done"
    /\ \E a, b \in Items :
         /\ a # b
         /\ Failed(a)
         /\ OwnSuccess(b)
         /\ EntriesOf(reported, b) # {}

\* C5: the gather loop ends and GenerateHTMLReport starts only after every
\* dispatched task has sent its outcome and ended.
C5_ReportAfterAllTasks ==
    mainPc \in {"report", "done"} =>
        /\ next > N
        /\ \A i \in Items : pc[i] = "exit" /\ sends[i] = 1
        /\ resultsCh = <<>>

\* the report is about to start for a batch of several items
C5_Witness ==
    /\ mainPc = "report"
    /\ N >= 2

\* C6 as stated: every CompanyResult in main's results has exactly 4
\* quarters and 4 entries in each of its four value lists.
C6_FourSlots ==
    \A j \in DOMAIN results :
        /\ Len(results[j].Quarters) = MaxQuarters
        /\ Len(results[j].Revenue) = MaxQuarters
        /\ Len(results[j].NetProfit) = MaxQuarters
        /\ Len(results[j].RevenueNums) = MaxQuarters
        /\ Len(results[j].NetProfitNums) = MaxQuarters

\* the payload of item i was fetched and json.Unmarshal rejects it
Undecodable(i) ==
    /\ Len(io[i]) = 3
    /\ FetchFundamentalsJSON(io[i][3].resp).err = "nil"
    /\ Unmarshal(FetchFundamentalsJSON(io[i][3].resp).bytes).err

\* C7 as stated: when the payload of an item cannot be decoded, its
\* resolution fails and no CompanyResult of it is in the output.
C7_UndecodableExcluded ==
    \A i \in Items :
        (Undecodable(i) /\ sends[i] > 0) =>
            /\ Failed(i)
            /\ EntriesOf(results, i) = {}

\* stage e of a resolution did not succeed
StageFailed(e) ==
    CASE e.stage = "search" ->
           FetchTrendSearch(e.resp).err # "nil" \/ FetchTrendSearch(e.resp).items = 0
      [] e.stage = "page" -> ExtractFundamentalsURLFromPage(e.resp).err # "nil"
      [] e.stage = "fund" -> FetchFundamentalsJSON(e.resp).err # "nil"

Stages == <<"search", "page", "fund">>

\* C8: every dispatched item makes each call at most once, in order, makes
\* no call after one that failed, and sends exactly one result: none before
\* its send statement, one from then on.
C8_OneOutcomeNoRetry ==
    \A i \in Items :
        /\ Len(io[i]) <= Len(Stages)
        /\ \A k \in DOMAIN io[i] : io[i][k].stage = Stages[k]
        /\ \A k \in DOMAIN io[i] : StageFailed(io[i][k]) => k = Len(io[i])
        /\ sends[i] = (IF pc[i] \in {"release", "wgdone", "exit"} THEN 1 ELSE 0)
        /\ mainPc = "done" => sends[i] = 1

\* a finished batch with an item whose search failed and was not repeated
C8_Witness ==
    /\ mainPc = "done"
    /\ \E i \in Items :
         /\ Len(io[i]) = 1
         /\ StageFailed(io[i][1])
         /\ sends[i] = 1



\* the search of item i returned an empty list of candidates
EmptySearch(i) ==
    /\ Len(io[i]) >= 1
    /\ io[i][1].resp.kind = "list"
    /\ io[i][1].resp.n = 0

NoTrendlyneResults == "no trendlyne results"

\* C19: when the search of an item returns no candidate, its resolution
\* fails with "no trendlyne results" before any page or payload is fetched
\* for it, no CompanyResult of it reaches the output, and the entries of the
\* other items are what their own responses make them.
C19_NoCandidateNotFound ==
    \A i \in Items :
        EmptySearch(i) =>
            /\ Len(io[i]) = 1
            /\ pc[i] \in {"send", "release", "wgdone", "exit"}
            /\ pending[i] = [cr |-> ZeroCR, err |-> NoTrendlyneResults]
            /\ EntriesOf(results, i) = {}
            /\ EntriesOf(reported, i) = {}
            /\ mainPc = "done" =>
                 \A b \in Items \ {i} :
                     IF OwnSuccess(b)
                     THEN \E j \in DOMAIN reported :
                            /\ EntriesOf(reported, b) = {j}
                            /\ reported[j] \in OwnResults(b)
                     ELSE EntriesOf(reported, b) = {}

\* a finished batch: the search of one item found nothing, another item is
\* in the output
C19_Witness ==
    /\ mainPc = "done"
    /\ \E i, b \in Items :
         /\ i # b
         /\ EmptySearch(i)
         /\ OwnSuccess(b)
         /\ Len(reported) = 1
         /\ EntriesOf(reported, b) = {1}
\* the goroutines that are past their send
Sent == {i \in Items : pc[i] \in {"release", "wgdone", "exit"}}

\* C23: in every interleaving no worker sends on the closed channel, the
\* channel is closed once (never twice, and once by the time the gather loop
\* is over), and a worker that is about to send finds room in the buffer:
\* the capacity is the number of tasks, each task sends once, and the closer
\* starts its wg.Wait only after the last wg.Add.
C23_SendsNeitherBlockNorPanic ==
    /\ ~panicked
    /\ closes <= 1
    /\ closed <=> closes = 1
    /\ mainPc \in {"report", "done"} => closes = 1
    /\ \A i \in Items :
         /\ pc[i] = "send" => ~closed /\ Len(resultsCh) < ChCap
         /\ sends[i] = IF i \in Sent THEN 1 ELSE 0
    /\ ChCap = N
    /\ Len(resultsCh) <= ChCap
    /\ closerPc # "none" => next > N
    /\ closerPc \in {"close", "done"} => wg = 0 /\ AllExited

\* every task of a batch of two has sent and nothing was gathered yet: the
\* buffer is full and still open
C23_Witness ==
    /\ N = 2
    /\ Sent = Items
    /\ Len(resultsCh) = ChCap
    /\ ~closed

---------------------------------------------------------------------------
(* Claims about main() with calls that hang *)

Hung == {i \in Items : pc[i] = "hung"}

\* every item whose calls all returned was dispatched, ran, sent its one
\* outcome and ended, and main has taken every outcome sent off the channel
OthersReported ==
    /\ next > N
    /\ \A i \in Items \ Hung : pc[i] = "exit" /\ sends[i] = 1
    /\ resultsCh = <<>>
    /\ Len(results) = Cardinality({i \in Items \ Hung : pending[i].err = "nil"})

\* the hung tasks hold every slot of sem
AllSlotsHung == Cardinality(Hung) >= maxConcurrent

\* the batch does not complete while a task hangs
NoCompletionWhileHung ==
    Hung # {} => /\ ~closed
                 /\ closerPc \in {"none", "wait"}
                 /\ mainPc \in {"dispatch", "gather"}
                 /\ wg >= Cardinality(Hung)
                 /\ sem >= Cardinality(Hung)

\* C18 as stated: a task that never returns stalls only itself and its
\* slot: for any limit >= 1 every other item is still dispatched, runs and
\* reports its outcome; only the completion of the batch is prevented.
C18_OthersReportForAnyLimit ==
    /\ []NoCompletionWhileHung
    /\ <>OthersReported

\* C18 as amended: the same, provided the limit exceeds the number of hung
\* tasks (any limit >= 2 for one hung task); once the hung tasks hold every
\* slot (one hung task under a limit of 1) the dispatch loop blocks on sem
\* and the items not yet dispatched are never started.
C18_OthersReportWhileSlotFree ==
    /\ []NoCompletionWhileHung
    /\ <>(OthersReported \/ AllSlotsHung)

\* one task hangs, the other has reported and main has gathered its result
C18_Witness ==
    /\ Cardinality(Hung) = 1
    /\ N = 2
    /\ OthersReported
    /\ Len(results) = 1
    /\ mainPc = "gather"
    /\ ~closed
---------------------------------------------------------------------------
(* chooseBestDump on its own *)

\* main() has not been entered: the state of the orchestrator while
\* chooseBestDump is exercised on its own
OrchIdle ==
    /\ todaysItems = <<>>
    /\ maxConcurrent = 0
    /\ mainPc = "idle"
    /\ next = 0
    /\ sem = 0
    /\ wg = 0
    /\ resultsCh = <<>>
    /\ closed = FALSE
    /\ closes = 0
    /\ closerPc = "none"
    /\ pc = <<>>
    /\ pending = <<>>
    /\ io = <<>>
    /\ sends = <<>>
    /\ results = <<>>
    /\ reported = <<>>
    /\ panicked = FALSE

InitDump ==
    /\ OrchIdle
    /\ dQd \in SampleQds
    /\ dOrder \in SampleOrders
    /\ dRes = {}
    /\ dCalls = 0
    /\ CallIdle

\* one call chooseBestDump(qd, qOrder); the runtime picks the order in which
\* "range qd" visits the entries
CallChooseBestDump ==
    /\ dCalls < MaxCalls
    /\ \E order \in Perms(DOMAIN dQd) :
         dRes' = dRes \cup {chooseBestDump(dQd, dOrder, order)}
    /\ dCalls' = dCalls + 1
    /\ UNCHANGED <<dQd, dOrder>>
    /\ UNCHANGED callVars
    /\ UNCHANGED orchVars

NextDump == CallChooseBestDump

SpecDump == InitDump /\ [][NextDump]_vars

---------------------------------------------------------------------------
(* Claims about chooseBestDump *)

AllZero(qd, qOrder) == \A k \in MapGroups(qd) : GroupScore(qd, qOrder, k) = 0

\* C9 as stated: chooseBestDump returns none when the group mapping is
\* empty and also when every group scores 0 against the expected periods.
C9_NoneWhenAllScoreZero ==
    (dCalls > 0 /\ AllZero(dQd, dOrder)) => dRes = {NilMap}

\* C9 as amended: chooseBestDump returns none exactly when the mapping holds
\* no map-valued group (in particular when it is empty); when every
\* map-valued group scores 0 it still returns one of those groups, since a
\* score of 0 beats the initial bestScore of -1.
C9_NoneIffNoMapGroup ==
    \A r \in dRes :
        /\ r.nil <=> MapGroups(dQd) = {}
        /\ ~r.nil => \E k \in MapGroups(dQd) : r = GoMap(dQd[k].v)

\* a call on a mapping whose map-valued groups all score 0 returned a group
C9_Witness ==
    /\ dCalls > 0
    /\ MapGroups(dQd) # {}
    /\ AllZero(dQd, dOrder)
    /\ \E r \in dRes : ~r.nil

\* C10 as stated: for the same group mapping and period sequence every call
\* of chooseBestDump returns the same group, whatever the iteration order.
C10_Deterministic == Cardinality(dRes) <= 1

\* the ways to pair keys of a group with expected periods: a key is paired
\* with no period (0) or with one it matches, and no period with two keys
Pairings(m, targets) ==
    {f \in [DOMAIN m -> 0..Len(targets)] :
        /\ \A k \in DOMAIN m : f[k] # 0 => KeyMatches(normalize(k), targets[f[k]])
        /\ \A k1, k2 \in DOMAIN m : (k1 # k2 /\ f[k1] # 0) => f[k1] # f[k2]}

\* the most expected periods that find a matching key of their own
PeriodsMatched(m, targets) ==
    LET sizes == {Cardinality({k \in DOMAIN m : f[k] # 0}) : f \in Pairings(m, targets)}
    IN CHOOSE n \in sizes : \A x \in sizes : x <= n

\* C11 as stated: the score of a group is the number of expected periods
\* that have a normalized match among its keys, a key counting toward one
\* period at most; so it never exceeds the number of expected periods.
C11_ScoreCountsPeriods ==
    dCalls > 0 =>
        \A k \in MapGroups(dQd) :
            /\ GroupScore(dQd, dOrder, k) = PeriodsMatched(dQd[k].v, Targets(dOrder))
            /\ GroupScore(dQd, dOrder, k) <= Len(dOrder)

MaxScore(qd, qOrder) ==
    LET scores == {GroupScore(qd, qOrder, k) : k \in MapGroups(qd)}
    IN CHOOSE n \in scores : \A x \in scores : x <= n

\* C12: when some group scores above 0, the group chooseBestDump returns is
\* a map-valued group of the highest score, hence never one of score 0.
C12_BestHasMaxScore ==
    (dCalls > 0 /\ \E k \in MapGroups(dQd) : GroupScore(dQd, dOrder, k) > 0) =>
        \A r \in dRes :
            /\ ~r.nil
            /\ Score(r.m, Targets(dOrder)) = MaxScore(dQd, dOrder)
            /\ Score(r.m, Targets(dOrder)) > 0
            /\ \E k \in MapGroups(dQd) : r = GoMap(dQd[k].v)

\* a call on a mapping with a group of score 0 and a group of a score above
C12_Witness ==
    /\ dCalls > 0
    /\ dRes # {}
    /\ \E k1, k2 \in MapGroups(dQd) :
         /\ GroupScore(dQd, dOrder, k1) = 0
         /\ GroupScore(dQd, dOrder, k2) > 0


---------------------------------------------------------------------------
(* The statistics of a report row (src/report.go).  A float64 computed     *)
(* there is an exact quotient p/q in lowest terms with q > 0, or NaN; the  *)
(* rounding of float64 division is left out.                               *)

RECURSIVE Gcd(_, _)
Gcd(a, b) == IF b = 0 THEN a ELSE Gcd(b, a % b)

\* the quotient p/q, q # 0
Rat(p, q) ==
    LET g == Gcd(Abs(p), Abs(q))
        negative == (p < 0) # (q < 0)
    IN [k |-> "rat", p |-> (IF negative THEN -1 ELSE 1) * (Abs(p) \div g),
        q |-> Abs(q) \div g]

\* a value of RevenueNums or NetProfitNums as a quotient
RatOf(f) == IF f.k = "fin" THEN Rat(f.v, 1000) ELSE f

NotNaN(f) == ~IsNaN(f)

RECURSIVE SumFloats(_)
SumFloats(vals) ==
    IF vals = <<>> THEN Rat(0, 1)
    ELSE LET a == RatOf(Head(vals))
             b == SumFloats(Tail(vals))
         IN Rat(a.p * b.q + b.p * a.q, a.q * b.q)

\* a variant that gives NaN as soon as one value is NaN
avgFloatsStrict(vals) ==
    IF SelectSeq(vals, NotNaN) # vals \/ vals = <<>> THEN NaN
    ELSE Rat(SumFloats(vals).p, SumFloats(vals).q * Len(vals))

\* avgFloats (src/report.go:51-64): the values that are NaN are left out
avgFloats(vals) ==
    LET valid == SelectSeq(vals, NotNaN)
        sum == SumFloats(valid)
        count == Len(valid)
    IN IF count = 0 THEN NaN ELSE Rat(sum.p, sum.q * count)

\* a variant that divides by prev instead of math.Abs(prev)
pctOrNaNSigned(curr, prev) ==
    IF IsNaN(curr) \/ IsNaN(prev) THEN NaN
    ELSE LET c == RatOf(curr)
             p == RatOf(prev)
         IN IF p.p = 0 THEN NaN
            ELSE Rat((c.p * p.q - p.p * c.q) * p.q * 100, c.q * p.q * p.p)

\* pctOrNaN (src/report.go:593-602): (curr - prev) / math.Abs(prev) * 100.0
pctOrNaN(curr, prev) ==
    IF IsNaN(curr) \/ IsNaN(prev) THEN NaN
    ELSE LET c == RatOf(curr)
             p == RatOf(prev)
         IN IF p.p = 0 THEN NaN
            ELSE Rat((c.p * p.q - p.p * c.q) * p.q * 100, c.q * p.q * Abs(p.p))

\* GenerateHTMLReport, the numbers of one row (src/report.go:221-265)
GenerateHTMLReportStats(r) ==
    LET rn == r.RevenueNums
        nn == r.NetProfitNums
        latestRev == IF Len(rn) > 0 THEN rn[1] ELSE NaN
        prevRev == IF Len(rn) > 1 THEN rn[2] ELSE NaN
        latestNP == IF Len(nn) > 0 THEN nn[1] ELSE NaN
        prevNP == IF Len(nn) > 1 THEN nn[2] ELSE NaN
        avg3Rev == IF Len(rn) >= 3 THEN avgFloats(SubSeq(rn, 1, Min(3, Len(rn)))) ELSE NaN
        avgPrev3Rev == IF Len(rn) >= 4 THEN avgFloats(SubSeq(rn, 2, 4)) ELSE NaN
        avg3NP == IF Len(nn) >= 3 THEN avgFloats(SubSeq(nn, 1, Min(3, Len(nn)))) ELSE NaN
        avgPrev3NP == IF Len(nn) >= 4 THEN avgFloats(SubSeq(nn, 2, 4)) ELSE NaN
    IN [revPctNum |-> pctOrNaN(latestRev, prevRev),
        npPctNum |-> pctOrNaN(latestNP, prevNP),
        avg3RevPctNum |-> pctOrNaN(avg3Rev, avgPrev3Rev),
        avg3NPPctNum |-> pctOrNaN(avg3NP, avgPrev3NP)]
---------------------------------------------------------------------------
(* Functions of the program called on their own: one call per behaviour,  *)
(* its arguments drawn at the start                                        *)

\* neither main() nor a run of chooseBestDump calls is under way
ProgramIdle ==
    /\ OrchIdle
    /\ dQd = EmptyFn
    /\ dOrder = <<>>
    /\ dRes = {}
    /\ dCalls = 0

\* what a direct call leaves alone
CallFrame ==
    /\ UNCHANGED <<cFn, cIn>>
    /\ UNCHANGED <<dQd, dOrder, dRes, dCalls>>
    /\ UNCHANGED orchVars

Returned(fn) == cFn = fn /\ cOut # <<>>

\* ---- findQuarterKey ----

Q1FY24 == <<"Q", "1", "F", "Y", "2", "4">>
Q1SpaceFY24 == <<"Q", "1", " ", "F", "Y", "2", "4">>
PeriodKeys == {Q1FY24, <<"q", "1", "-", "f", "y", "2", "4">>, <<"Q", "1">>,
               <<"Q", "2", "F", "Y", "2", "4">>}
WantedLabels == {Q1SpaceFY24, <<"Q", "2">>, <<"Q", "3">>}

FindQuarterKeyInputs ==
    {[d |-> GoMap([k \in ks |-> EmptyObj]), q |-> q] :
        ks \in SUBSET PeriodKeys, q \in WantedLabels}

\* alt := findQuarterKey(dump, q); the runtime picks the order of "range d"
CallFindQuarterKey ==
    /\ cFn = "findQuarterKey"
    /\ cOut = <<>>
    /\ \E korder \in Perms(Keys(cIn.d)) :
         cOut' = <<findQuarterKey(cIn.d, cIn.q, korder)>>
    /\ CallFrame


\* ---- valueFromMap, then quarterValueToFloat64 ----

MetricKeys == {"TOTAL_SR_Q", "SR_Q", "NP_Q"}
Abc == <<"a", "b", "c">>
MetricValues == {JNull, JNum(1500504), JStr(<<"1", "2", ".", "5">>), JStr(<<>>),
                 JStr(Abc), JStr(<<"1", ",", "2", "3", "4">>), JStr(NotDeclared),
                 JBool(TRUE)}
MetricMaps == UNION {[ks -> MetricValues] : ks \in SUBSET MetricKeys}

ValueFromMapInputs ==
    {[m |-> GoMap(f), keys |-> keys] :
        f \in MetricMaps, keys \in {RevenueKeys, NetProfitKeys}}

\* rev := valueFromMap(qmap, keys...) and, at the end of
\* ParseCompanyFundamentals, quarterValueToFloat64(rev)
CallValueFromMap ==
    /\ cFn = "valueFromMap"
    /\ cOut = <<>>
    /\ LET rev == valueFromMap(cIn.m, cIn.keys)
       IN cOut' = <<[display |-> rev, num |-> quarterValueToFloat64(rev)]>>
    /\ CallFrame

\* ---- pctOrNaN and the statistics of a row ----

PctSamples == {NaN, Fin(0), Fin(100000), Fin(110000), Fin(90000), Fin(-100000),
               Fin(-50000), Fin(1500)}
PctInputs == {[curr |-> c, prev |-> p] : c \in PctSamples, p \in PctSamples}

CallPctOrNaN ==
    /\ cFn = "pctOrNaN"
    /\ cOut = <<>>
    /\ cOut' = <<pctOrNaN(cIn.curr, cIn.prev)>>
    /\ CallFrame

\* RevenueNums and NetProfitNums of a CompanyResult: four values each, or
\* none at all when the payload was not decoded
SlotSamples == {NaN, Fin(0), Fin(100000), Fin(110000), Fin(-50000)}
NetProfitSamples == {<<Fin(90000), Fin(100000), NaN, NaN>>,
                     <<Fin(100000), Fin(-50000), Fin(0), Fin(110000)>>}
StatsInputs ==
    {[RevenueNums |-> rn, NetProfitNums |-> nn] :
        rn \in [1..MaxQuarters -> SlotSamples], nn \in NetProfitSamples}
      \cup {[RevenueNums |-> <<>>, NetProfitNums |-> <<>>]}

\* one round of the loop over results in GenerateHTMLReport
CallStats ==
    /\ cFn = "stats"
    /\ cOut = <<>>
    /\ cOut' = <<GenerateHTMLReportStats(cIn)>>
    /\ CallFrame

\* ---- ParseCompanyFundamentals ----

Acme == <<"A", "C", "M", "E">>
QSpace2 == <<"q", " ", "2">>
\* the period keys a group may carry: Q1 and Q2 under their labels, or Q2
\* under the spelling "q 2"
DumpKeySets == (SUBSET {Q(1), Q(2)}) \cup {{QSpace2}, {Q(1), QSpace2}}

\* a payload that declares the periods Q1..Qn and carries, under
\* "consolidated", the periods ks
DocOf(n, ks) ==
    JObj([b \in {"body"} |->
        JObj([j \in {"quarterlyOrder", "quarterlyDataDump"} |->
            IF j = "quarterlyOrder"
            THEN JArr([i \in 1..n |-> JStr(Q(i))])
            ELSE JObj([g \in {"consolidated"} |->
                     JObj([k \in ks |-> IF k = Q(1) THEN QuarterOne ELSE QuarterTwo])])])])

ParseInputs ==
    {[declared |-> n, keys |-> ks, fundJSON |-> BytesJSON(DocOf(n, ks))] :
        n \in 0..(MaxQuarters + 1), ks \in DumpKeySets}

\* cr := ParseCompanyFundamentals(itm.ShortName, fundJSON)
CallParseCompanyFundamentals ==
    /\ cFn = "ParseCompanyFundamentals"
    /\ cOut = <<>>
    /\ \E cr \in ParseOutcomes(Acme, cIn.fundJSON) : cOut' = <<cr>>
    /\ CallFrame

\* ---- the three fetches, given responses that carry a status code ----

\* resp.StatusCode: OK, Not Found, Internal Server Error
StatusCodes == {200, 404, 500}

\* what client.Do returns to a stage: an error (no response), or a response
\* with resp.StatusCode and a body
FetchInputs ==
    {[stage |-> st, resp |-> [kind |-> "neterr", status |-> 0]] :
        st \in {"search", "page", "fund"}}
      \cup {[stage |-> "search", resp |-> [kind |-> "list", n |-> n, status |-> s]] :
              n \in {0, 1}, s \in StatusCodes}
      \cup {[stage |-> "search", resp |-> [kind |-> "text", n |-> 0, status |-> s]] :
              s \in StatusCodes}
      \cup {[stage |-> "page", resp |-> [kind |-> "page", url |-> u, status |-> s]] :
              u \in BOOLEAN, s \in StatusCodes}
      \cup {[stage |-> "fund", resp |-> [kind |-> "body", body |-> b, status |-> s]] :
              b \in SampleBodies \cup {BytesBlank}, s \in StatusCodes}

\* one of FetchTrendSearch, ExtractFundamentalsURLFromPage and
\* FetchFundamentalsJSON, as main's goroutine calls them
CallFetch ==
    /\ cFn = "fetch"
    /\ cOut = <<>>
    /\ cOut' = <<CASE cIn.stage = "search" -> FetchTrendSearch(cIn.resp)
                   [] cIn.stage = "page" -> ExtractFundamentalsURLFromPage(cIn.resp)
                   [] cIn.stage = "fund" -> FetchFundamentalsJSON(cIn.resp)>>
    /\ CallFrame

\* ---- getOutputReportPath (src/unnamed/part_000:15-36) ----

ReportFile == "report.html"
PreferredPath == <<"$HOME", "Documents", "quarter-compare", ReportFile>>
ExecutablePath == <<"$EXEDIR", ReportFile>>
WorkingDirPath == <<"$WD", ReportFile>>

\* what the system answers: os.UserHomeDir ("ok", "err", or "empty" for a
\* home of ""), os.MkdirAll of the preferred directory, os.Executable,
\* os.MkdirAll of the executable's directory, os.Getwd
Environments ==
    [home : {"ok", "err", "empty"}, mkdirHome : BOOLEAN, exe : BOOLEAN,
     mkdirExe : BOOLEAN, wd : BOOLEAN]

\* [path, err]
getOutputReportPath(env) ==
    IF env.home = "ok"
    THEN IF ~env.mkdirHome THEN [path |-> <<>>, err |-> "mkdir"]
         ELSE [path |-> PreferredPath, err |-> "nil"]
    ELSE IF env.exe /\ env.mkdirExe THEN [path |-> ExecutablePath, err |-> "nil"]
    ELSE IF env.wd THEN [path |-> WorkingDirPath, err |-> "nil"]
    ELSE [path |-> <<ReportFile>>, err |-> "nil"]

\* outPath, err := getOutputReportPath(); log.Fatalf when err != nil
\* (src/unnamed/part_000:146-149)
CallGetOutputReportPath ==
    /\ cFn = "getOutputReportPath"
    /\ cOut = <<>>
    /\ LET got == getOutputReportPath(cIn)
       IN cOut' = <<[outPath |-> got.path, err |-> got.err, fatal |-> got.err # "nil"]>>
    /\ CallFrame

\* ---- the indexing of GenerateHTMLReport (src/report.go:68-77, 198-219) ----

\* what an index past the end of a slice gives: a run-time panic
OutOfRange == [k |-> "panic", v |-> 0]
Index(s, i) == IF i \in DOMAIN s THEN s[i] ELSE OutOfRange

\* headerQuarters := []string{"Q1", "Q2", "Q3", "Q4"}
DefaultHeader == [i \in 1..MaxQuarters |-> Q(i)]

\* the header after the loop over the Quarters of the first result;
\* headerQuarters[i] = q panics when i is past the four slots
HeaderQuarters(rs) ==
    IF rs = <<>> THEN DefaultHeader
    ELSE LET quarters == rs[1].Quarters
         IN IF \E i \in DOMAIN quarters : quarters[i] # <<>> /\ i \notin DOMAIN DefaultHeader
            THEN OutOfRange
            ELSE [i \in DOMAIN DefaultHeader |->
                    IF i \in DOMAIN quarters /\ quarters[i] # <<>>
                    THEN quarters[i] ELSE DefaultHeader[i]]

\* the four pairs of cells of a row: for i := 0; i < 4; i++
Cells(r) ==
    [i \in 1..MaxQuarters |->
        LET hasRev == i <= Len(r.Revenue) /\ r.Revenue[i] # <<>>
            hasNP == i <= Len(r.NetProfit) /\ r.NetProfit[i] # <<>>
        IN [rv |-> IF hasRev THEN r.Revenue[i] ELSE NotDeclared,
            np |-> IF hasNP THEN r.NetProfit[i] ELSE NotDeclared,
            rvNum |-> IF hasRev THEN Index(r.RevenueNums, i) ELSE NaN,
            npNum |-> IF hasNP THEN Index(r.NetProfitNums, i) ELSE NaN]]

\* every payload ParseCompanyFundamentals may be given, decodable or not
ReportInputs == SampleBodies \cup {in.fundJSON : in \in ParseInputs}

\* cr := ParseCompanyFundamentals(itm.ShortName, fundJSON), then
\* GenerateHTMLReport on the result
CallGenerateHTMLReport ==
    /\ cFn = "GenerateHTMLReport"
    /\ cOut = <<>>
    /\ \E cr \in ParseOutcomes(Acme, cIn) :
         cOut' = <<[cr |-> cr, header |-> HeaderQuarters(<<cr>>), cells |-> Cells(cr)]>>
    /\ CallFrame
---------------------------------------------------------------------------
(* The specification of the direct calls *)

InitCalls ==
    /\ ProgramIdle
    /\ cOut = <<>>
    /\ \/ cFn = "findQuarterKey" /\ cIn \in FindQuarterKeyInputs
       \/ cFn = "valueFromMap" /\ cIn \in ValueFromMapInputs
       \/ cFn = "pctOrNaN" /\ cIn \in PctInputs
       \/ cFn = "stats" /\ cIn \in StatsInputs
       \/ cFn = "ParseCompanyFundamentals" /\ cIn \in ParseInputs
       \/ cFn = "fetch" /\ cIn \in FetchInputs
       \/ cFn = "getOutputReportPath" /\ cIn \in Environments
       \/ cFn = "GenerateHTMLReport" /\ cIn \in ReportInputs

NextCalls ==
    \/ CallFindQuarterKey
    \/ CallValueFromMap
    \/ CallPctOrNaN
    \/ CallStats
    \/ CallParseCompanyFundamentals
    \/ CallFetch
    \/ CallGetOutputReportPath
    \/ CallGenerateHTMLReport

SpecCalls == InitCalls /\ [][NextCalls]_vars

---------------------------------------------------------------------------
(* Claims about the functions called on their own *)

ExactKeys(d, q) == {k \in Keys(d) : normalize(k) = normalize(q)}
ContainKeys(d, q) ==
    {k \in Keys(d) : \/ Contains(normalize(k), normalize(q))
                     \/ Contains(normalize(q), normalize(k))}

\* C13: findQuarterKey returns a key whose normalized form equals that of
\* the wanted label whenever the group has one ("Q1 FY24" finds "Q1FY24"); a
\* key matching by containment only when no key matches by equality; none
\* ("") when no key matches either way.
C13_ExactBeforeContainment ==
    Returned("findQuarterKey") =>
        LET d == cIn.d
            q == cIn.q
            alt == cOut[1]
        IN /\ ExactKeys(d, q) # {} => alt \in ExactKeys(d, q)
           /\ (ExactKeys(d, q) = {} /\ ContainKeys(d, q) # {}) => alt \in ContainKeys(d, q)
           /\ ContainKeys(d, q) = {} => alt = <<>>
           /\ (q = Q1SpaceFY24 /\ ExactKeys(d, q) = {Q1FY24}) => alt = Q1FY24

\* "Q1 FY24" wanted from a group holding "Q1FY24" and, matching by
\* containment only, "Q1"
C13_Witness ==
    /\ Returned("findQuarterKey")
    /\ cIn.q = Q1SpaceFY24
    /\ ExactKeys(cIn.d, cIn.q) = {Q1FY24}
    /\ <<"Q", "1">> \in Keys(cIn.d)
    /\ cOut[1] = Q1FY24

\* the text of a number: what quarterValueToFloat64 turns into a float64
\* other than NaN
NumericText(s) ==
    LET r == ParseFloat(RemoveCommas(TrimSpace(s)))
    IN r.ok /\ ~IsNaN(r.f)

\* the positions of the key list whose key maps to a value that is neither
\* null nor the empty string, and the first of them (0 when there is none)
PresentAt(m, keys) ==
    {i \in DOMAIN keys : HasKey(m, keys[i]) /\ MapGet(m, keys[i]) \notin {JNull, JStr(<<>>)}}
FirstPresent(m, keys) ==
    IF PresentAt(m, keys) = {} THEN 0
    ELSE CHOOSE i \in PresentAt(m, keys) : \A j \in PresentAt(m, keys) : i <= j

\* a value that can be coerced to a number: a number or the text of one
Coercible(v) == v.t = "num" \/ (v.t = "str" /\ NumericText(v.v))

NumericSlots(nums) == Cardinality({i \in DOMAIN nums : ~IsNaN(nums[i])})

AllNaN(nums, a, b) == \A i \in a..b : IsNaN(nums[i])

\* pct is 100 * n / d, d > 0
IsPercentOf(pct, n, d) == ~IsNaN(pct) /\ pct.p * d = 100 * n * pct.q

\* the sum, in thousandths, of the numbers among slots a..b
RECURSIVE SlotSum(_, _, _)
SlotSum(nums, a, b) ==
    IF a > b THEN 0
    ELSE (IF IsNaN(nums[a]) THEN 0 ELSE nums[a].v) + SlotSum(nums, a + 1, b)

\* C15 as stated: the average-of-3 percent change of a metric is NaN
\* whenever fewer than 4 of its slots hold a number.
C15_Avg3NeedsFourNumbers ==
    Returned("stats") =>
        /\ NumericSlots(cIn.RevenueNums) < 4 => IsNaN(cOut[1].avg3RevPctNum)
        /\ NumericSlots(cIn.NetProfitNums) < 4 => IsNaN(cOut[1].avg3NPPctNum)

\* what C15 as amended says of one metric
Avg3AsComputed(nums, avg3Pct, latestPct) ==
    /\ Len(nums) < 4 => IsNaN(avg3Pct)
    /\ Len(nums) = 4 =>
         /\ IsNaN(avg3Pct) <=> \/ AllNaN(nums, 1, 3)
                               \/ AllNaN(nums, 2, 4)
                               \/ SlotSum(nums, 2, 4) = 0
         /\ (NumericSlots(nums) = 2 /\ AllNaN(nums, 3, 4) /\ nums[2].v # 0) =>
              /\ IsPercentOf(avg3Pct, nums[1].v - nums[2].v, 2 * Abs(nums[2].v))
              /\ IsPercentOf(latestPct, nums[1].v - nums[2].v, Abs(nums[2].v))

\* C15 as amended: the average-of-3 percent change of a metric is pctOrNaN
\* of the mean of the numbers among slots 0..2 and the mean of the numbers
\* among slots 1..3, so with 4 slots it is NaN exactly when slots 0..2 hold
\* no number, slots 1..3 hold no number, or the numbers of slots 1..3 add up
\* to 0; for nums = [v1, v2, NaN, NaN] with v2 # 0 it is
\* ((v1+v2)/2 - v2) / |v2| * 100, not NaN, and the latest change is
\* computed from v1 and v2.
C15_Avg3IgnoresNaN ==
    Returned("stats") =>
        /\ Avg3AsComputed(cIn.RevenueNums, cOut[1].avg3RevPctNum, cOut[1].revPctNum)
        /\ Avg3AsComputed(cIn.NetProfitNums, cOut[1].avg3NPPctNum, cOut[1].npPctNum)

\* a row with only the first 2 periods resolved: both changes are numbers
C15_Witness ==
    /\ Returned("stats")
    /\ cIn.RevenueNums = <<Fin(110000), Fin(100000), NaN, NaN>>
    /\ cOut[1].avg3RevPctNum = Rat(5, 1)
    /\ cOut[1].revPctNum = Rat(10, 1)

\* what pctOrNaN is to return for curr and prev
PctOf(pct, curr, prev) ==
    IF IsNaN(curr) \/ IsNaN(prev) THEN IsNaN(pct)
    ELSE IF prev.v = 0 THEN IsNaN(pct)
    ELSE IsPercentOf(pct, curr.v - prev.v, Abs(prev.v))

SlotOrNaN(nums, i) == IF Len(nums) >= i THEN nums[i] ELSE NaN

\* C17: pctOrNaN(curr, prev) is NaN when either argument is NaN, NaN when
\* prev is 0 whatever curr is, and (curr - prev) / |prev| * 100 otherwise:
\* 10 for (110, 100), -10 for (90, 100); the latest change of each metric
\* is pctOrNaN of its slot 0 and slot 1.
C17_PercentChange ==
    /\ Returned("pctOrNaN") =>
         /\ PctOf(cOut[1], cIn.curr, cIn.prev)
         /\ (cIn.curr = Fin(110000) /\ cIn.prev = Fin(100000)) => cOut[1] = Rat(10, 1)
         /\ (cIn.curr = Fin(90000) /\ cIn.prev = Fin(100000)) => cOut[1] = Rat(-10, 1)
    /\ Returned("stats") =>
         /\ PctOf(cOut[1].revPctNum, SlotOrNaN(cIn.RevenueNums, 1),
                  SlotOrNaN(cIn.RevenueNums, 2))
         /\ PctOf(cOut[1].npPctNum, SlotOrNaN(cIn.NetProfitNums, 1),
                  SlotOrNaN(cIn.NetProfitNums, 2))

\* a change measured against a negative previous value
C17_Witness ==
    /\ Returned("pctOrNaN")
    /\ cIn.curr = Fin(-50000)
    /\ cIn.prev = Fin(-100000)
    /\ cOut[1] = Rat(50, 1)

\* the data of period q can be read from a group with the keys ks: under
\* the label itself or under a key findQuarterKey accepts for it
Resolvable(ks, q) ==
    q \in ks \/ ContainKeys(GoMap([k \in ks |-> EmptyObj]), q) # {}

\* the record of the scenario: Q1..Q4 declared, data for Q1 and Q2 only
TwoOfFour == Returned("ParseCompanyFundamentals")
               /\ cIn.declared = 4 /\ cIn.keys = {Q(1), Q(2)}

V1 == <<"1", "5", "0", "0", ".", "5">>
V2 == <<"9", "0", "0">>

\* C16 as stated: with Q1..Q4 declared and data for Q1 and Q2 only, periods
\* is ["Q1","Q2","",""] and revenue [v1, v2, "not declared", "not declared"]:
\* a period slot is empty exactly when its metrics were not resolvable.
C16_PeriodEmptyIffUnresolved ==
    Returned("ParseCompanyFundamentals") =>
        LET cr == cOut[1]
        IN /\ TwoOfFour =>
                /\ cr.Quarters = <<Q(1), Q(2), <<>>, <<>>>>
                /\ cr.Revenue = <<V1, V2, NotDeclared, NotDeclared>>
           /\ \A i \in 1..MaxQuarters :
                cr.Quarters[i] = <<>> <=>
                    ~(i <= cIn.declared /\ Resolvable(cIn.keys, Q(i)))

\* C16 as amended: with Q1..Q4 declared and data for Q1 and Q2 only,
\* periods is ["Q1","Q2","Q3","Q4"], the declared labels, and revenue
\* [v1, v2, "not declared", "not declared"]: a period slot is empty exactly
\* when fewer periods than that slot were declared, and a revenue slot is
\* "not declared" when its period was not declared or not resolvable.
C16_PeriodsAreDeclaredLabels ==
    Returned("ParseCompanyFundamentals") =>
        LET cr == cOut[1]
        IN /\ TwoOfFour =>
                /\ cr.Quarters = <<Q(1), Q(2), Q(3), Q(4)>>
                /\ cr.Revenue = <<V1, V2, NotDeclared, NotDeclared>>
           /\ Len(cr.Quarters) = MaxQuarters
           /\ Len(cr.Revenue) = MaxQuarters
           /\ \A i \in 1..MaxQuarters :
                /\ cr.Quarters[i] = (IF i <= cIn.declared THEN Q(i) ELSE <<>>)
                /\ cr.Revenue[i] = NotDeclared <=>
                     ~(i <= cIn.declared /\ Resolvable(cIn.keys, Q(i)))

\* the scenario has been parsed
C16_Witness ==
    /\ TwoOfFour
    /\ cOut[1].Quarters[3] = Q(3)
    /\ cOut[1].Revenue[3] = NotDeclared
    /\ cOut[1].RevenueNums = <<Fin(1500500), Fin(900000), NaN, NaN>>

Is2xx(status) == status >= 200 /\ status <= 299

\* C20 as stated: a network error or a response whose status is not 2xx
\* makes the fetch of its stage fail, so that the resolution fails and no
\* CompanyResult is built from the body of such a response.
C20_Non2xxFailsTheStage ==
    (Returned("fetch") /\ (cIn.resp.kind = "neterr" \/ ~Is2xx(cIn.resp.status)))
        => cOut[1].err # "nil"

\* the preferred location cannot be used: the home directory is unknown or
\* the directory cannot be created
PreferredUnusable(env) == env.home # "ok" \/ ~env.mkdirHome

\* C21 as stated: whenever the preferred location cannot be used,
\* getOutputReportPath returns a path in a fallback location (the
\* executable's directory, then the working directory) and no error, so
\* main does not stop before the report is written.
C21_FallsBackInsteadOfError ==
    (Returned("getOutputReportPath") /\ PreferredUnusable(cIn)) =>
        /\ cOut[1].err = "nil"
        /\ ~cOut[1].fatal
        /\ cOut[1].outPath \in {ExecutablePath, WorkingDirPath, <<ReportFile>>}

\* what valueFromMap shows for one value that is neither null nor the empty
\* string: a number and the text of a number to two decimals, any other
\* string as it is, any other type as its JSON text
DisplayOf(v) ==
    CASE v.t = "num" -> formatFloat(Fin(v.v))
      [] v.t = "str" /\ ParseFloat(v.v).ok -> formatFloat(ParseFloat(v.v).f)
      [] v.t = "str" /\ ~ParseFloat(v.v).ok -> v.v
      [] OTHER -> Marshal(v)

\* C22: valueFromMap tries the keys in the given order and its result is
\* derived from the first key that is present with a value other than null
\* and the empty string, whatever the later keys hold; a later key is used
\* only when every earlier key is absent, null or the empty string, and the
\* result is "not declared" when no key is present that way.
C22_FirstPresentKeyWins ==
    Returned("valueFromMap") =>
        LET first == FirstPresent(cIn.m, cIn.keys)
        IN /\ first = 0 => cOut[1].display = NotDeclared
           /\ first # 0 => cOut[1].display = DisplayOf(MapGet(cIn.m, cIn.keys[first]))
           /\ \A i \in DOMAIN cIn.keys :
                (/\ HasKey(cIn.m, cIn.keys[i])
                 /\ MapGet(cIn.m, cIn.keys[i]) \notin {JNull, JStr(<<>>)}
                 /\ cOut[1].display # DisplayOf(MapGet(cIn.m, cIn.keys[i])))
                => \E j \in 1..(i - 1) : j \in PresentAt(cIn.m, cIn.keys)

\* TOTAL_SR_Q holds "12.5" and SR_Q holds 1500.504: the result is 12.5, the
\* later key is not used
C22_Witness ==
    /\ Returned("valueFromMap")
    /\ cIn.keys = RevenueKeys
    /\ MapGet(cIn.m, "TOTAL_SR_Q") = JStr(<<"1", "2", ".", "5">>)
    /\ MapGet(cIn.m, "SR_Q") = JNum(1500504)
    /\ cOut[1].display = <<"1", "2", ".", "5">>


\* C24: in every CompanyResult of ParseCompanyFundamentals the five lists
\* have one length, at most 4, and the number at an index is NaN whenever
\* the display value there is "not declared"; so the header and the cells
\* of GenerateHTMLReport never index past the end of a list, and a cell
\* carries the number that stands at its index.
C24_ListsAlignedAndIndexedInRange ==
    Returned("GenerateHTMLReport") =>
        LET cr == cOut[1].cr
            n == Len(cr.Quarters)
        IN /\ n <= MaxQuarters
           /\ Len(cr.Revenue) = n /\ Len(cr.NetProfit) = n
           /\ Len(cr.RevenueNums) = n /\ Len(cr.NetProfitNums) = n
           /\ \A i \in 1..n :
                /\ cr.Revenue[i] = NotDeclared => IsNaN(cr.RevenueNums[i])
                /\ cr.NetProfit[i] = NotDeclared => IsNaN(cr.NetProfitNums[i])
           /\ cOut[1].header # OutOfRange
           /\ \A i \in 1..MaxQuarters :
                /\ cOut[1].cells[i].rvNum # OutOfRange
                /\ cOut[1].cells[i].npNum # OutOfRange
                /\ i <= n => /\ cOut[1].cells[i].rvNum = cr.RevenueNums[i]
                             /\ cOut[1].cells[i].npNum = cr.NetProfitNums[i]

\* a payload that declares five periods: four are kept, the first with a
\* revenue and the last "not declared" with NaN, and the header takes the
\* four labels
C24_Witness ==
    /\ Returned("GenerateHTMLReport")
    /\ cIn = BytesJSON(DocFive)
    /\ Len(cOut[1].cr.RevenueNums) = MaxQuarters
    /\ ~IsNaN(cOut[1].cr.RevenueNums[1])
    /\ cOut[1].cr.Revenue[4] = NotDeclared
    /\ IsNaN(cOut[1].cells[4].rvNum)
    /\ cOut[1].header = [i \in 1..MaxQuarters |-> Q(i)]
=============================================================================
